---- MODULE Spec2Model ----
(***************************************************************************)
(* The voice dashboard component (VoiceMoodDashboard) as a state machine.  *)
(* One state is the React state of the component, its refs, and what the  *)
(* browser holds on its behalf: capture streams, audio graphs, recognizer  *)
(* objects, the speech-synthesis queue, and the async functions that are   *)
(* suspended at an await.  One step is one event-loop task: a click        *)
(* handler, a recognizer callback, or the continuation of an await up to   *)
(* the next await that really suspends.                                    *)
(*                                                                         *)
(* Closures: startCall, startSpeechRecognition and processUserMessage are  *)
(* created anew by every render.  The handlers that startCall attaches to  *)
(* a recognizer keep the variables of the render in which the button was   *)
(* clicked; the record "snap" of an invocation holds those values.         *)
(***************************************************************************)
EXTENDS Integers, Sequences, FiniteSets, TLC

\* -------------------------------------------------------------- bounds
\* Clicks on "Start Voice Session" in one behaviour.
MaxCalls == 2
\* Final result batches the recognizers deliver in one behaviour.
MaxTurns == 2
\* Turns that may be awaiting their completion request at the same time.
MaxInFlight == 2
\* Refusals, rejections, throws, recognition errors and failed completion
\* requests in one behaviour.
MaxFaults == 2
\* The bounds of the specifications that look at one part of the component.
OneCall == 1
OneTurn == 1
OneFault == 1
\* Final result batches in the long-history specification.
RetTurns == 52

\* ------------------------------------------------- program constants
\* [...conversationContext, ...topics].slice(-10) in the profile update.
ProfileTopicKeep == 10
\* prev.slice(0, 49): the number of older turns kept behind a new one.
SliceKeep == 49
\* .slice(-10): the number of topics kept in the rolling context.
ContextKeep == 10
\* topics.slice(0, 3)
TopicKeep == 3

NULL == "null"

\* ------------------------------------------------------ string helpers
Min(a, b) == IF a < b THEN a ELSE b

UpperChars == "ABCDEFGHIJKLMNOPQRSTUVWXYZ"

LowerChars == "abcdefghijklmnopqrstuvwxyz"

\* One character of String.prototype.toLowerCase (ASCII letters).
LowerChar(c) ==
  IF \E k \in 1..26 : SubSeq(UpperChars, k, k) = c
  THEN LET k == CHOOSE k \in 1..26 : SubSeq(UpperChars, k, k) = c
       IN  SubSeq(LowerChars, k, k)
  ELSE c

RECURSIVE ToLowerCase(_)
ToLowerCase(s) ==
  IF Len(s) = 0 THEN ""
  ELSE LowerChar(SubSeq(s, 1, 1)) \o ToLowerCase(SubSeq(s, 2, Len(s)))

\* String.prototype.includes
Includes(s, w) ==
  \E k \in 1..(Len(s) - Len(w) + 1) : SubSeq(s, k, k + Len(w) - 1) = w

IsSpace(c) == c = " "

\* String.prototype.trim
RECURSIVE TrimStart(_)
TrimStart(s) ==
  IF Len(s) > 0 /\ IsSpace(SubSeq(s, 1, 1))
  THEN TrimStart(SubSeq(s, 2, Len(s)))
  ELSE s

RECURSIVE TrimEnd(_)
TrimEnd(s) ==
  IF Len(s) > 0 /\ IsSpace(SubSeq(s, Len(s), Len(s)))
  THEN TrimEnd(SubSeq(s, 1, Len(s) - 1))
  ELSE s

Trim(s) == TrimEnd(TrimStart(s))

\* Array.prototype.slice(0, n)
SliceFirst(q, n) == SubSeq(q, 1, Min(n, Len(q)))

\* Array.prototype.slice(-n)
SliceLast(q, n) == SubSeq(q, IF Len(q) > n THEN Len(q) - n + 1 ELSE 1, Len(q))

\* Array.prototype.includes
Contains(q, x) == \E k \in 1..Len(q) : q[k] = x

\* Array.from(new Set(q)): first occurrences, in order.
RECURSIVE Unique(_)
Unique(q) ==
  IF Len(q) = 0 THEN <<>>
  ELSE LET r == Unique(SubSeq(q, 1, Len(q) - 1))
           x == q[Len(q)]
       IN  IF Contains(r, x) THEN r ELSE Append(r, x)

\* Array.prototype.join
RECURSIVE Join(_, _)
Join(q, sep) ==
  IF Len(q) = 0 THEN ""
  ELSE IF Len(q) = 1 THEN q[1]
  ELSE q[1] \o sep \o Join(Tail(q), sep)

\* words.filter((word) => lowerText.includes(word)).length
CountIn(words, text) == Cardinality({k \in 1..Len(words) : Includes(text, words[k])})

AnyIn(words, text) == \E k \in 1..Len(words) : Includes(text, words[k])

\* ------------------------------------------------ mood and topic rules
TopicGroups ==
  << [tag |-> "work",     words |-> <<"work", "job", "career">>],
     [tag |-> "family",   words |-> <<"family", "parent", "child">>],
     [tag |-> "social",   words |-> <<"friend", "social", "lonely">>],
     [tag |-> "health",   words |-> <<"health", "sick", "pain">>],
     [tag |-> "stress",   words |-> <<"stress", "anxiety", "worry">>],
     [tag |-> "sleep",    words |-> <<"sleep", "tired", "energy">>],
     [tag |-> "positive", words |-> <<"happy", "excited", "good">>],
     [tag |-> "negative", words |-> <<"sad", "upset", "bad">>] >>

RECURSIVE TopicsFrom(_, _)
TopicsFrom(k, lowerText) ==
  IF k > Len(TopicGroups) THEN <<>>
  ELSE (IF AnyIn(TopicGroups[k].words, lowerText)
        THEN <<TopicGroups[k].tag>> ELSE <<>>) \o TopicsFrom(k + 1, lowerText)

extractTopicsLastThree(text) == SliceLast(TopicsFrom(1, ToLowerCase(text)), TopicKeep)

\* extractTopics: the tags of the groups that match, cut to the first three.
extractTopics(text) == SliceFirst(TopicsFrom(1, ToLowerCase(text)), TopicKeep)

positiveWords ==
  << "happy", "good", "great", "excited", "wonderful", "amazing", "love",
     "excellent", "fantastic", "perfect", "joy", "pleased", "better", "improved" >>

negativeWords ==
  << "sad", "bad", "angry", "upset", "frustrated", "hate", "terrible", "awful",
     "horrible", "annoying", "disappointed", "stress", "anxious", "worried" >>

detectMoodTiePositive(text) ==
  LET lowerText == ToLowerCase(text)
      positiveCount == CountIn(positiveWords, lowerText)
      negativeCount == CountIn(negativeWords, lowerText)
  IN  IF positiveCount >= negativeCount THEN "positive"
      ELSE IF negativeCount > positiveCount THEN "negative"
      ELSE "neutral"

detectMood(text) ==
  LET lowerText == ToLowerCase(text)
      positiveCount == CountIn(positiveWords, lowerText)
      negativeCount == CountIn(negativeWords, lowerText)
  IN  IF positiveCount > negativeCount THEN "positive"
      ELSE IF negativeCount > positiveCount THEN "negative"
      ELSE "neutral"

getContextAwareResponseStressFirst(userMessage, context) ==
  LET lowerMessage == ToLowerCase(userMessage)
      hasPreviousContext == Len(context) > 0
      recentTopics == Join(SliceLast(context, 3), ", ")
  IN  IF hasPreviousContext /\ Contains(context, "stress")
         /\ (Includes(lowerMessage, "better") \/ Includes(lowerMessage, "improve"))
      THEN "I'm glad to hear you're working on managing stress. Remember the techniques we discussed? How are they helping you?"
      ELSE IF hasPreviousContext
              /\ (Includes(lowerMessage, "remember") \/ Includes(lowerMessage, "before"))
      THEN "I remember we talked about " \o recentTopics
           \o ". I'm here to continue supporting you with those topics. How are things going with that now?"
      ELSE IF hasPreviousContext /\ Contains(context, "work")
              /\ Includes(lowerMessage, "today")
      THEN "Since we've talked about work before, I'd love to hear how your day went. Any specific challenges or successes?"
      ELSE IF Includes(lowerMessage, "hello") \/ Includes(lowerMessage, "hi")
              \/ Includes(lowerMessage, "hey")
      THEN (IF hasPreviousContext
            THEN "Welcome back! I remember our previous conversation. How have you been since we last spoke?"
            ELSE "Hello! It's great to meet you. I'm here to listen and support you. What would you like to talk about today?")
      ELSE IF Includes(lowerMessage, "how are you")
      THEN "I'm functioning well, thank you for asking! I'm here to chat with you. What's on your mind today?"
      ELSE IF Includes(lowerMessage, "thank")
      THEN "You're very welcome! I'm glad I could help. Remember, I'm always here to listen. Is there anything else you'd like to discuss?"
      ELSE IF Includes(lowerMessage, "sad") \/ Includes(lowerMessage, "upset")
              \/ Includes(lowerMessage, "unhappy")
      THEN "I'm sorry to hear you're feeling this way. It takes courage to share these feelings. Would you like to talk more about what's bothering you?"
      ELSE IF Includes(lowerMessage, "happy") \/ Includes(lowerMessage, "excited")
              \/ Includes(lowerMessage, "good")
      THEN "That's wonderful to hear! I'm glad you're feeling positive. What's been making you feel this way? I'd love to hear more!"
      ELSE IF hasPreviousContext
      THEN "Thank you for sharing that. Building on our previous conversation about "
           \o Join(SliceLast(context, 2), " and ")
           \o ", I'm here to support you further. What else would you like to discuss?"
      ELSE "Thank you for sharing that with me. I'm here to listen and help however I can. What else is on your mind?"

\* getContextAwareResponse: the first rule that matches gives the reply.
getContextAwareResponse(userMessage, context) ==
  LET lowerMessage == ToLowerCase(userMessage)
      hasPreviousContext == Len(context) > 0
      recentTopics == Join(SliceLast(context, 3), ", ")
  IN  IF hasPreviousContext
         /\ (Includes(lowerMessage, "remember") \/ Includes(lowerMessage, "before"))
      THEN "I remember we talked about " \o recentTopics
           \o ". I'm here to continue supporting you with those topics. How are things going with that now?"
      ELSE IF hasPreviousContext /\ Contains(context, "stress")
              /\ (Includes(lowerMessage, "better") \/ Includes(lowerMessage, "improve"))
      THEN "I'm glad to hear you're working on managing stress. Remember the techniques we discussed? How are they helping you?"
      ELSE IF hasPreviousContext /\ Contains(context, "work")
              /\ Includes(lowerMessage, "today")
      THEN "Since we've talked about work before, I'd love to hear how your day went. Any specific challenges or successes?"
      ELSE IF Includes(lowerMessage, "hello") \/ Includes(lowerMessage, "hi")
              \/ Includes(lowerMessage, "hey")
      THEN (IF hasPreviousContext
            THEN "Welcome back! I remember our previous conversation. How have you been since we last spoke?"
            ELSE "Hello! It's great to meet you. I'm here to listen and support you. What would you like to talk about today?")
      ELSE IF Includes(lowerMessage, "how are you")
      THEN "I'm functioning well, thank you for asking! I'm here to chat with you. What's on your mind today?"
      ELSE IF Includes(lowerMessage, "thank")
      THEN "You're very welcome! I'm glad I could help. Remember, I'm always here to listen. Is there anything else you'd like to discuss?"
      ELSE IF Includes(lowerMessage, "sad") \/ Includes(lowerMessage, "upset")
              \/ Includes(lowerMessage, "unhappy")
      THEN "I'm sorry to hear you're feeling this way. It takes courage to share these feelings. Would you like to talk more about what's bothering you?"
      ELSE IF Includes(lowerMessage, "happy") \/ Includes(lowerMessage, "excited")
              \/ Includes(lowerMessage, "good")
      THEN "That's wonderful to hear! I'm glad you're feeling positive. What's been making you feel this way? I'd love to hear more!"
      ELSE IF hasPreviousContext
      THEN "Thank you for sharing that. Building on our previous conversation about "
           \o Join(SliceLast(context, 2), " and ")
           \o ", I'm here to support you further. What else would you like to discuss?"
      ELSE "Thank you for sharing that with me. I'm here to listen and help however I can. What else is on your mind?"

\* ------------------------------------------------------------- state
VARIABLES
  mounted,                \* the component is mounted
  isCallActive, error, isMicPermissionGranted, isListening, isSpeaking,
  isProcessing, currentTranscript, audioLevel, sessionProgress,
  conversationContext, conversations, userProfile,   \* useState
  stored,                 \* localStorage["voice-mood-conversations"]
  recognitionRef, mediaStreamRef, audioContextRef, analyserRef,   \* useRef
  calls,                  \* the startCall invocations, in click order
  turns,                  \* the processUserMessage invocations in flight
  utter,                  \* the utterance handed to speechSynthesis
  restartTimers,          \* invocations whose onend scheduled a restart
  clock,                  \* Date.now() of the next history entry
  nTurns, nFaults,        \* final batches delivered, faults so far
  streak,                 \* remote turns appended in a row, none other between
  speakCalls, lastSpoken, \* the calls of speakText
  hookLog,                \* webhook requests sent, by event type
  host,                   \* what the browser and the deployment provide
  limits,                 \* the bounds of this behaviour
  last                    \* the handler that ran in the latest step

uiVars == << isCallActive, error, isMicPermissionGranted, isListening, isSpeaking,
             isProcessing, currentTranscript, audioLevel, sessionProgress >>

dataVars == << conversationContext, conversations, clock, streak, userProfile,
              stored >>

refVars == << recognitionRef, mediaStreamRef, audioContextRef, analyserRef >>

envVars == << mounted, host, limits >>

vars == << mounted, isCallActive, error, isMicPermissionGranted, isListening,
           isSpeaking, isProcessing, currentTranscript, audioLevel, sessionProgress,
           conversationContext, conversations, userProfile, stored,
           recognitionRef, mediaStreamRef, audioContextRef, analyserRef, calls, turns, utter, restartTimers, clock,
           streak, nTurns, nFaults, speakCalls, lastSpoken, hookLog, host, limits, last >>

\* --------------------------------------------------------- vocabulary
ErrMicRequired ==
  "Microphone access is required. Please allow microphone permissions and try again."

ErrFailedAccess ==
  "Failed to access microphone. Please check your permissions and try again."

ErrUnsupported ==
  "Speech recognition is not supported in your browser. Please use Chrome, Edge, or Safari."

ErrFailedStart == "Failed to start speech recognition. Please try again."

ErrorCodes == {"no-speech", "audio-capture", "not-allowed", "network", "aborted"}

RecognitionErrorMessage(code) ==
  CASE code = "no-speech" ->
         "No speech detected. Please speak louder or check your microphone."
    [] code = "audio-capture" ->
         "No microphone found. Please ensure a microphone is connected."
    [] code = "not-allowed" ->
         "Microphone permission denied. Please allow microphone access."
    [] code = "network" -> "Network error occurred. Please check your connection."
    [] OTHER -> "Speech recognition error: " \o code

\* The transcripts a recognizer delivers as final results, and as interim ones.
FinalTexts == {" a", "I feel great today", " remember my work stress "}

InterimTexts == {"um"}

\* Transcripts that meet the rules of the fallback reply, several at a time.
ReplyTexts ==
  { "Do you remember the days before?",
    "I remember feeling better, thank you",
    "My sleep did improve today",
    "Hello, work was good today",
    "thank you, I am happy",
    "I am so sad and upset",
    "how are you",
    "I am excited",
    "OK then" }

\* Transcripts for the mood rule: a tie of one word each, words in capitals,
\* a word inside another word, two words against one.
MoodTexts ==
  { "Good days and BAD days",
    "GREAT, I love it",
    "I am unhappy",
    "happy but angry and worried" }

\* Transcripts for the topic rule: more than three groups, groups named out of
\* their order, several keywords of one group.
TopicTexts ==
  { "My job, my family and my friend make me sick with worry",
    "I am TIRED of my Job",
    "work, job, career",
    "bad sleep, good energy" }

\* One SpeechRecognitionResult, and the batches made of one result.
Result(text, isFinal) == [transcript |-> text, isFinal |-> isFinal]

Final(text) == << Result(text, TRUE) >>

Interim(text) == << Result(text, FALSE) >>

\* for (i = event.resultIndex; ...): finalTranscript and interimTranscript
\* are the transcripts of the final and of the other results, concatenated.
RECURSIVE TranscriptOf(_, _)
TranscriptOf(batch, isFinal) ==
  IF batch = <<>> THEN ""
  ELSE (IF Head(batch).isFinal = isFinal THEN Head(batch).transcript ELSE "")
       \o TranscriptOf(Tail(batch), isFinal)

FinalTranscriptLastOnly(batch) ==
  LET finals == SelectSeq(batch, LAMBDA r : r.isFinal)
  IN  IF finals = <<>> THEN "" ELSE finals[Len(finals)].transcript

FinalTranscript(batch) == TranscriptOf(batch, TRUE)

InterimTranscript(batch) == TranscriptOf(batch, FALSE)

\* What the completion service answers with when it answers well.
RemoteReply == "I hear you. Tell me more."

\* The outcomes of the completion request: a parsed reply, a parsed message
\* whose content is empty, a rejected fetch, a non-OK status, a payload
\* without choices[0].message.
FetchOutcomes == {"ok", "blank", "reject", "status", "shape"}

\* response.ok, and data.choices[0].message is there: nothing is thrown.
Parsed(outcome) == outcome \in {"ok", "blank"}

\* data.choices[0].message.content
ContentOf(outcome) == IF outcome = "ok" THEN RemoteReply ELSE ""

\* What becomes of a webhook request: a 2xx response, a failure (the fetch
\* rejects or the status is not OK: caught, false returned), or no answer at
\* all (the promise of fetch stays pending; there is no timeout).
WebhookAnswers == {"ok", "fail", "never"}

\* The await of triggerN8nWebhook resumes when the request has answered.
Answered(answer) == answer \in {"ok", "fail"}

WebhookEvents ==
  {"call_started", "call_ended", "conversation_entry",
   "conversation_entry_fallback", "history_cleared"}

\* The history found in localStorage at mount: LoadedLen turns of earlier
\* sessions, newest first, or none.
LoadedLen == 49

LoadedEntry(k) ==
  [ ts |-> 0 - k, userMessage |-> "earlier", aiResponse |-> "earlier reply",
    mood |-> "neutral", topics |-> <<>> ]

LoadedHistory(n) == [k \in 1..n |-> LoadedEntry(k)]

\* userProfile: null before onboarding, else the profile with its
\* conversationContext (the other fields are never read by the handlers).
NoProfile ==
  [ present |-> FALSE, recentTopics |-> <<>>, emotionalState |-> "neutral",
    sessionProgress |-> 0 ]

\* The profile found in localStorage at mount, with the topics of earlier
\* sessions.
LoadedProfile(topics) ==
  [ present |-> TRUE, recentTopics |-> topics, emotionalState |-> "neutral",
    sessionProgress |-> 0 ]

PersistAlways(prev, history) == [present |-> TRUE, value |-> history]

\* The persistence effect: a non-empty history is written to localStorage
\* after the render that changed it, an empty one is not.
Persist(prev, history) ==
  IF Len(history) > 0 THEN [present |-> TRUE, value |-> history] ELSE prev

NotStored == [present |-> FALSE, value |-> <<>>]

\* ------------------------------------------- resources as one record
\* The refs, the browser objects behind them and the state the teardown and
\* bring-up helpers write, so that each helper is a function on this record.
Res ==
  [ recognitionRef |-> recognitionRef, mediaStreamRef |-> mediaStreamRef,
    audioContextRef |-> audioContextRef, analyserRef |-> analyserRef,
    calls |-> calls, utter |-> utter, error |-> error,
    isListening |-> isListening, isSpeaking |-> isSpeaking,
    audioLevel |-> audioLevel, threw |-> FALSE ]

SetRes(r) ==
  /\ recognitionRef' = r.recognitionRef
  /\ mediaStreamRef' = r.mediaStreamRef
  /\ audioContextRef' = r.audioContextRef
  /\ analyserRef' = r.analyserRef
  /\ calls' = r.calls
  /\ utter' = r.utter
  /\ error' = r.error
  /\ isListening' = r.isListening
  /\ isSpeaking' = r.isSpeaking
  /\ audioLevel' = r.audioLevel

\* A recognizer is "none" before it exists, then "idle", "starting" (start()
\* called), "listening" (onstart delivered), "ending" (stopped or failed, onend
\* due) and "idle" again.  SpeechRecognition.stop(): a started recognizer
\* winds down and will fire onend; on any other it does nothing.
RecAfterStop(s) == IF s \in {"starting", "listening"} THEN "ending" ELSE s

stopSpeechRecognitionUnguarded(r) ==
  IF r.recognitionRef # 0
  THEN [r EXCEPT !.calls[r.recognitionRef].rec = RecAfterStop(@),
                 !.recognitionRef = 0,
                 !.isListening = FALSE]
  ELSE [r EXCEPT !.threw = TRUE]

\* stopSpeechRecognition: stop() inside a guard and a try block, the ref set
\* to null, setIsListening(false).
stopSpeechRecognition(r) ==
  IF r.recognitionRef # 0
  THEN [r EXCEPT !.calls[r.recognitionRef].rec = RecAfterStop(@),
                 !.recognitionRef = 0,
                 !.isListening = FALSE]
  ELSE [r EXCEPT !.isListening = FALSE]

\* speechSynthesis.cancel() empties the queue; the cancelled utterance's own
\* end event only repeats setIsSpeaking(false).
stopSpeechSynthesis(r) == [r EXCEPT !.utter = "none", !.isSpeaking = FALSE]

cleanupAudioAnalysisKeepsGraph(r) ==
  LET r1 == IF r.mediaStreamRef # 0
            THEN [r EXCEPT !.calls[r.mediaStreamRef].stream = FALSE,
                           !.mediaStreamRef = 0]
            ELSE r
  IN  [r1 EXCEPT !.analyserRef = 0, !.audioLevel = 0]

\* cleanupAudioAnalysis: the tracks of the referenced stream stopped, the
\* referenced AudioContext closed, the three refs null, setAudioLevel(0).
cleanupAudioAnalysis(r) ==
  LET r1 == IF r.mediaStreamRef # 0
            THEN [r EXCEPT !.calls[r.mediaStreamRef].stream = FALSE,
                           !.mediaStreamRef = 0]
            ELSE r
      r2 == IF r1.audioContextRef # 0
            THEN [r1 EXCEPT !.calls[r1.audioContextRef].graph = FALSE,
                            !.audioContextRef = 0]
            ELSE r1
  IN  [r2 EXCEPT !.analyserRef = 0, !.audioLevel = 0]

\* Math.min(average / 128, 1): silence and full scale.
Levels == {0, 1}

\* analyzeAudio reads the analyser ref and isCallActive of the render that
\* was clicked.
FramesRun(r, i) == r.analyserRef # 0 /\ r.calls[i].snap.isCallActive

\* One run of analyzeAudio of invocation i: past its guard it sets the level
\* and asks for the next animation frame.  The guard never lets the first
\* run pass, so no frame is ever asked for and the frame callback has no
\* action of its own.
analyzeAudio(r, i, level) ==
  IF FramesRun(r, i)
  THEN [r EXCEPT !.audioLevel = level, !.calls[i].frames = TRUE]
  ELSE r

\* setupAudioAnalysis of invocation i builds the graph (the AudioContext
\* constructor is taken not to throw) and runs analyzeAudio once.
setupAudioAnalysis(r, i, level) ==
  analyzeAudio(
    [r EXCEPT !.audioContextRef = i, !.analyserRef = i, !.calls[i].graph = TRUE],
    i, level)

\* SpeechRecognition.start(): throws unless the recognizer is at rest.
RecCanStart(s) == s \in {"none", "idle"}

startSpeechRecognition(r, i, hasRecognition, startOK) ==
  IF ~hasRecognition
  THEN [r EXCEPT !.error = ErrUnsupported]
  ELSE IF startOK
  THEN [r EXCEPT !.recognitionRef = i, !.calls[i].rec = "starting"]
  ELSE [r EXCEPT !.recognitionRef = i, !.calls[i].rec = "idle",
                 !.error = ErrFailedStart]

\* speakText: cancel what is being said, queue the new utterance.
speakText(r) == [stopSpeechSynthesis(r) EXCEPT !.utter = "queued"]

\* The body of the restart timer of invocation i (the setTimeout callback).
RestartTimer(r, i) ==
  IF r.calls[i].snap.isCallActive /\ r.recognitionRef # 0
     /\ RecCanStart(r.calls[r.recognitionRef].rec)
  THEN [r EXCEPT !.calls[r.recognitionRef].rec = "starting"]
  ELSE r

\* The number of things that went wrong among the outcomes of one step.
Faults(oks) == Cardinality({k \in 1..Len(oks) : ~oks[k]})

Sent(event) == hookLog' = [hookLog EXCEPT ![event] = @ + 1]

Did(op, id) == last' = [op |-> op, id |-> id, late |-> FALSE, batch |-> <<>>]

\* The same for onresult, with the batch of results it was given.
DidBatch(op, id, batch) ==
  last' = [op |-> op, id |-> id, late |-> FALSE, batch |-> batch]

\* The same for a step of turn t; "late" tells that the call was ended while
\* the turn's completion request was in flight.
DidTurn(op, t) ==
  last' = [op |-> op, id |-> t.id, late |-> t.late, batch |-> <<>>]

\* ------------------------------------------------------------ initial
\* The state after the first render and its mount effect: nothing is running,
\* the history is what localStorage held.
InitWith(lim, loaded, hosts) ==
  /\ mounted = TRUE
  /\ isCallActive = FALSE /\ error = NULL /\ isMicPermissionGranted = FALSE
  /\ isListening = FALSE /\ isSpeaking = FALSE /\ isProcessing = FALSE
  /\ currentTranscript = "" /\ audioLevel = 0 /\ sessionProgress = 0
  /\ userProfile \in lim.profiles
  /\ conversationContext = userProfile.recentTopics
  /\ conversations \in {LoadedHistory(n) : n \in loaded}
  /\ stored = Persist(NotStored, conversations)
  /\ recognitionRef = 0 /\ mediaStreamRef = 0 /\ audioContextRef = 0
  /\ analyserRef = 0
  /\ calls = <<>> /\ turns = {} /\ utter = "none" /\ restartTimers = {}
  /\ clock = 1 /\ nTurns = 0 /\ nFaults = 0 /\ streak = 0
  /\ speakCalls = 0 /\ lastSpoken = ""
  /\ hookLog = [e \in WebhookEvents |-> 0]
  /\ host \in hosts
  /\ limits = lim
  /\ last = [op |-> "mount", id |-> 0, late |-> FALSE, batch |-> <<>>]

Hosts == [recognition : BOOLEAN, webhook : BOOLEAN]

FullHost == [recognition |-> TRUE, webhook |-> TRUE]

\* Two calls, one turn, one fault: the life cycle of a call.
Init ==
  InitWith([ calls |-> MaxCalls, turns |-> OneTurn, inflight |-> OneTurn,
             faults |-> OneFault, codes |-> {"not-allowed"},
             batches |-> { Interim(x) : x \in InterimTexts } \cup
                         { Final("I feel great today"),
                           Interim("um") \o Final("I feel great today"),
                           Final("I feel ") \o Final("great today"),
                           Final("") },
             outcomes |-> FetchOutcomes \ {"blank"}, answers |-> {"ok"},
             profiles |-> {LoadedProfile(<<"work", "stress">>)} ],
           {0}, Hosts)

\* One call, overlapping turns on top of a loaded history.
InitTurns ==
  InitWith([ calls |-> OneCall, turns |-> MaxTurns, inflight |-> MaxInFlight,
             faults |-> MaxFaults, codes |-> {"no-speech"},
             batches |-> { Final(m) : m \in FinalTexts \ {"I feel great today"} },
             outcomes |-> FetchOutcomes \ {"blank"}, answers |-> {"ok"},
             profiles |-> {LoadedProfile(<<"family", "work", "stress", "sleep">>)} ],
           {LoadedLen}, {h \in Hosts : h.recognition})

\* One call, many turns one after the other.
InitRetention ==
  InitWith([ calls |-> OneCall, turns |-> RetTurns, inflight |-> OneTurn,
             faults |-> OneFault, codes |-> {"no-speech"},
             batches |-> { Final("I feel great today") },
             outcomes |-> FetchOutcomes \ {"blank"}, answers |-> {"ok"},
             profiles |-> {NoProfile} ],
           {0}, {FullHost})

\* One call, two turns one after the other, every transcript of ReplyTexts,
\* MoodTexts and TopicTexts on every outcome of the request, with and without topics from earlier
\* sessions.
InitReplies ==
  InitWith([ calls |-> OneCall, turns |-> MaxTurns, inflight |-> OneTurn,
             faults |-> MaxFaults, codes |-> {"no-speech"},
             batches |-> { Final(m) : m \in ReplyTexts \cup MoodTexts \cup TopicTexts },
             outcomes |-> FetchOutcomes, answers |-> {"ok"},
             profiles |-> { NoProfile, LoadedProfile(<<"work">>),
                            LoadedProfile(<<"stress", "work">>),
                            LoadedProfile(<<"work", "stress", "work">>),
                            LoadedProfile(<<"family", "work", "stress", "sleep">>) } ],
           {0}, {FullHost})

\* One call, one turn, recognition errors of every code, webhook requests
\* that answer, fail and never answer.
InitErrors ==
  InitWith([ calls |-> OneCall, turns |-> OneTurn, inflight |-> OneTurn,
             faults |-> MaxFaults, codes |-> ErrorCodes,
             batches |-> { Final("I feel great today") },
             outcomes |-> {"ok", "reject"}, answers |-> WebhookAnswers,
             profiles |-> {NoProfile} ],
           {0}, {FullHost})

\* ---------------------------------------------------------- call start
\* The click: startCall up to its first await.  The button is rendered only
\* while isCallActive is false.
StartCall ==
  /\ mounted /\ ~isCallActive /\ Len(calls) < limits.calls
  /\ error' = NULL
  /\ currentTranscript' = ""
  /\ sessionProgress' = 0
  /\ calls' = Append(calls,
       [ pc |-> "probe", rec |-> "none", stream |-> FALSE, graph |-> FALSE,
         hook |-> FALSE, answer |-> "none", frames |-> FALSE,
         snap |-> [ isCallActive |-> isCallActive,
                    conversationContext |-> conversationContext,
                    sessionProgress |-> sessionProgress,
                    userProfile |-> userProfile ] ])
  /\ Did("startCall", Len(calls) + 1)
  /\ UNCHANGED << isCallActive, isMicPermissionGranted, isListening, isSpeaking,
                  isProcessing, audioLevel, dataVars, refVars, envVars, turns,
                  utter, restartTimers, nTurns, nFaults, speakCalls, lastSpoken,
                  hookLog >>

ActiveBeforeProbe(granted, active) == TRUE

\* isCallActive after the permission check: set only when it was granted.
ActiveAfterProbe(granted, active) == IF granted THEN TRUE ELSE active

\* checkMicrophonePermission settles: the probe stream is stopped in the same
\* continuation that receives it.  Refused: the error, and startCall returns.
\* Granted: the flags flip and the call_started webhook is awaited.
ProbeSettle(i, granted, answer) ==
  /\ calls[i].pc = "probe"
  /\ ~granted \/ ~host.webhook => answer = "ok"
  /\ nFaults' = nFaults + Faults(<<granted>>)
  /\ nFaults' <= limits.faults
  /\ isCallActive' = ActiveAfterProbe(granted, isCallActive)
  /\ IF ~granted
     THEN /\ error' = ErrMicRequired
          /\ calls' = [calls EXCEPT ![i].pc = "done"]
          /\ Did("probeRefused", i)
          /\ UNCHANGED << isMicPermissionGranted, hookLog >>
     ELSE /\ isMicPermissionGranted' = TRUE
          /\ IF host.webhook
             THEN /\ calls' = [calls EXCEPT ![i].pc = "webhook", ![i].hook = TRUE,
                                             ![i].answer = answer]
                  /\ Sent("call_started")
             ELSE /\ calls' = [calls EXCEPT ![i].pc = "acquire"]
                  /\ UNCHANGED hookLog
          /\ Did("probeGranted", i)
          /\ UNCHANGED error
  /\ UNCHANGED << isListening, isSpeaking, isProcessing, currentTranscript,
                  audioLevel, sessionProgress, dataVars, refVars, envVars, turns,
                  utter, restartTimers, nTurns, speakCalls, lastSpoken >>

\* The call_started webhook settles (either way: triggerN8nWebhook never
\* throws and its result is not read); getUserMedia is called again.
CallHookSettle(i) ==
  /\ calls[i].pc = "webhook"
  /\ Answered(calls[i].answer)
  /\ calls' = [calls EXCEPT ![i].pc = "acquire"]
  /\ Did("callHookSettled", i)
  /\ UNCHANGED << uiVars, dataVars, refVars, envVars, turns, utter, restartTimers,
                  nTurns, nFaults, speakCalls, lastSpoken, hookLog >>

\* Lines 557-559: retain the stream, build the meter, start recognition.
BringUp(r, i, hasRecognition, startOK, level) ==
  startSpeechRecognition(
    setupAudioAnalysis(
      [r EXCEPT !.mediaStreamRef = i, !.calls[i].stream = TRUE, !.calls[i].pc = "done"],
      i, level),
    i, hasRecognition, startOK)

\* The retained getUserMedia settles.  Rejected: the catch block.
AcquireSettle(i, granted, startOK, level) ==
  /\ calls[i].pc = "acquire"
  /\ ~granted \/ ~calls[i].snap.isCallActive => level = 0
  /\ ~granted \/ ~host.recognition => startOK
  /\ nFaults' = nFaults + Faults(<<granted, startOK>>)
  /\ nFaults' <= limits.faults
  /\ IF ~granted
     THEN /\ error' = ErrFailedAccess
          /\ isCallActive' = FALSE
          /\ calls' = [calls EXCEPT ![i].pc = "done"]
          /\ Did("acquireRejected", i)
          /\ UNCHANGED << refVars, utter, isListening, isSpeaking, audioLevel >>
     ELSE /\ SetRes(BringUp(Res, i, host.recognition, startOK, level))
          /\ Did("broughtUp", i)
          /\ UNCHANGED isCallActive
  /\ UNCHANGED << isMicPermissionGranted, isProcessing, currentTranscript,
                  sessionProgress, dataVars, envVars, turns, restartTimers, nTurns,
                  speakCalls, lastSpoken, hookLog >>

\* ------------------------------------------------------------ call end
\* The helpers endCall and the unmount cleanup call, in the order of the calls.
TeardownOrder == << "recognition", "synthesis", "capture" >>

TeardownStep(name, r) ==
  CASE name = "recognition" -> stopSpeechRecognition(r)
    [] name = "synthesis" -> stopSpeechSynthesis(r)
    [] name = "capture" -> cleanupAudioAnalysis(r)

Teardown(r) ==
  TeardownStep(TeardownOrder[3],
    TeardownStep(TeardownOrder[2], TeardownStep(TeardownOrder[1], r)))

TurnsAbortedByEndCall(ts) == {t \in ts : t.pc # "fetch"}

\* endCall holds no handle on the completion requests: the turns in flight
\* stay in flight.
TurnsAfterEndCall(ts) ==
  {[t EXCEPT !.late = (t.late \/ t.pc = "fetch")] : t \in ts}

\* The click on "End Call", rendered only while isCallActive is true.  The
\* call_ended webhook is not awaited.
EndCall ==
  /\ mounted /\ isCallActive
  /\ isCallActive' = FALSE
  /\ currentTranscript' = ""
  /\ sessionProgress' = 100
  /\ SetRes(Teardown([Res EXCEPT !.error = NULL]))
  /\ IF host.webhook THEN Sent("call_ended") ELSE UNCHANGED hookLog
  /\ turns' = TurnsAfterEndCall(turns)
  /\ Did("endCall", 0)
  /\ UNCHANGED << isMicPermissionGranted, isProcessing, dataVars, envVars,
                  restartTimers, nTurns, nFaults, speakCalls, lastSpoken >>

\* The cleanup of the mount effect.
Unmount ==
  /\ mounted
  /\ mounted' = FALSE
  /\ SetRes(Teardown(Res))
  /\ Did("unmount", 0)
  /\ UNCHANGED << isCallActive, isMicPermissionGranted, isProcessing,
                  currentTranscript, sessionProgress, dataVars, host, limits, turns,
                  restartTimers, nTurns, nFaults, speakCalls, lastSpoken, hookLog >>

\* ------------------------------------------------------ the recognizer
\* The callbacks of the recognizer that invocation i created.  They stay
\* attached to the object after recognitionRef has let go of it.
OnStart(i) ==
  /\ calls[i].rec = "starting"
  /\ calls' = [calls EXCEPT ![i].rec = "listening"]
  /\ isListening' = TRUE
  /\ error' = NULL
  /\ Did("onstart", i)
  /\ UNCHANGED << isCallActive, isMicPermissionGranted, isSpeaking, isProcessing,
                  currentTranscript, audioLevel, sessionProgress, dataVars, refVars,
                  envVars, turns, utter, restartTimers, nTurns, nFaults, speakCalls,
                  lastSpoken, hookLog >>

GrantedAfterErrorAnyCode(code, granted) == FALSE

\* case "not-allowed": setIsMicPermissionGranted(false); no other case
\* writes the flag.
GrantedAfterError(code, granted) == IF code = "not-allowed" THEN FALSE ELSE granted

OnError(i, code) ==
  /\ calls[i].rec \in {"starting", "listening"}
  /\ nFaults < limits.faults
  /\ nFaults' = nFaults + 1
  /\ calls' = [calls EXCEPT ![i].rec = "ending"]
  /\ error' = RecognitionErrorMessage(code)
  /\ isMicPermissionGranted' = GrantedAfterError(code, isMicPermissionGranted)
  /\ isListening' = FALSE
  /\ Did("onerror", i)
  /\ UNCHANGED << isCallActive, isSpeaking, isProcessing, currentTranscript,
                  audioLevel, sessionProgress, dataVars, refVars, envVars, turns,
                  utter, restartTimers, nTurns, speakCalls, lastSpoken, hookLog >>

\* onend reads isCallActive of the render that was clicked, and the ref.
RestartWanted(i) == calls[i].snap.isCallActive /\ recognitionRef # 0

OnEnd(i) ==
  /\ calls[i].rec \in {"listening", "ending"}
  /\ calls' = [calls EXCEPT ![i].rec = "idle"]
  /\ isListening' = FALSE
  /\ restartTimers' = IF RestartWanted(i) THEN restartTimers \cup {i}
                      ELSE restartTimers
  /\ Did("onend", i)
  /\ UNCHANGED << isCallActive, error, isMicPermissionGranted, isSpeaking,
                  isProcessing, currentTranscript, audioLevel, sessionProgress,
                  dataVars, refVars, envVars, turns, utter, nTurns, nFaults,
                  speakCalls, lastSpoken, hookLog >>

\* The live transcript keeps its shape only: empty, ending in the interim
\* marker " |", or plain text.
TranscriptAfter(prev, interim, final) ==
  IF final # "" THEN "text" ELSE IF interim # "" THEN "text |" ELSE prev

RejectedBlankOnly(message) == Len(Trim(message)) = 0

\* processUserMessage rejects what is blank or shorter than two characters.
Rejected(message) == Len(Trim(message)) = 0 \/ Len(message) < 2

MergeTopicsRecentLast(prev, newTopics) ==
  SliceLast(SelectSeq(prev, LAMBDA x : ~Contains(newTopics, x)) \o Unique(newTopics),
            ContextKeep)

\* setConversationContext((prev) => unique(prev ++ newTopics).slice(-10))
MergeTopics(prev, newTopics) == SliceLast(Unique(prev \o newTopics), ContextKeep)

ProgressUncapped(prev) == prev + 10

\* Math.min(prev + 10, 100)
Progress(prev) == Min(prev + 10, 100)

\* onresult with one batch of results.  A non-empty finalTranscript calls
\* processUserMessage, which runs up to its fetch; with both transcripts empty
\* the handler does nothing.
OnResult(i, batch) ==
  LET interim == InterimTranscript(batch)
      final == FinalTranscript(batch)
  IN
  /\ calls[i].rec = "listening"
  /\ currentTranscript' = TranscriptAfter(currentTranscript, interim, final)
  /\ IF final = ""
     THEN /\ DidBatch(IF interim = "" THEN "nothing" ELSE "interim", i, batch)
          /\ UNCHANGED << isProcessing, sessionProgress, conversationContext, turns,
                          nTurns >>
     ELSE /\ nTurns < limits.turns
          /\ Cardinality(turns) < limits.inflight
          /\ nTurns' = nTurns + 1
          /\ IF Rejected(Trim(final))
             THEN /\ isProcessing' = FALSE
                  /\ DidBatch("rejected", nTurns + 1, batch)
                  /\ UNCHANGED << sessionProgress, conversationContext, turns >>
             ELSE /\ isProcessing' = TRUE
                  /\ sessionProgress' = Progress(sessionProgress)
                  /\ conversationContext' =
                       MergeTopics(conversationContext, extractTopics(Trim(final)))
                  /\ turns' = turns \cup
                       {[ id |-> nTurns + 1, inv |-> i, message |-> Trim(final),
                          pc |-> "fetch", reply |-> "", late |-> FALSE,
                          answer |-> "none" ]}
                  /\ DidBatch("asked", nTurns + 1, batch)
  /\ UNCHANGED << isCallActive, error, isMicPermissionGranted, isListening,
                  isSpeaking, audioLevel, conversations, clock, streak, userProfile,
                  stored, refVars, envVars, calls, utter, restartTimers, nFaults,
                  speakCalls, lastSpoken, hookLog >>

\* ------------------------------------------------------------ the turn
NewEntry(message, reply) ==
  [ ts |-> clock, userMessage |-> message, aiResponse |-> reply,
    mood |-> detectMood(message), topics |-> extractTopics(message) ]

AppendRemoteKeepsFifty(prev, entry) == <<entry>> \o SliceFirst(prev, SliceKeep + 1)

\* setConversations((prev) => [newEntry, ...prev.slice(0, 49)])
AppendRemote(prev, entry) == <<entry>> \o SliceFirst(prev, SliceKeep)

AppendFallbackDrops(prev, entry) == prev

\* setConversations((prev) => [newEntry, ...prev])
AppendFallback(prev, entry) == <<entry>> \o prev

\* The remote path rewrites the profile from the userProfile,
\* conversationContext and sessionProgress of the render that was clicked;
\* without a profile in that render it leaves the state alone.
ProfileAfterRemote(prev, snap, message) ==
  IF snap.userProfile.present
  THEN [ snap.userProfile EXCEPT
           !.recentTopics = SliceLast(snap.conversationContext
                                        \o extractTopics(message), ProfileTopicKeep),
           !.emotionalState = detectMood(message),
           !.sessionProgress = snap.sessionProgress + 10 ]
  ELSE prev

\* The fallback path does not touch the profile.
ProfileAfterFallback(prev, snap, message) == prev

\* clearHistory resets the context of the profile of the current render.
ProfileAfterClear(prev) ==
  IF prev.present
  THEN [prev EXCEPT !.recentTopics = <<>>, !.emotionalState = "neutral",
                    !.sessionProgress = 0]
  ELSE prev

\* const context = conversationContext: the system prompt and the fallback
\* read conversationContext of the render that was clicked.
ContextUsed(t) == calls[t.inv].snap.conversationContext

FallbackReply(t) == getContextAwareResponse(t.message, ContextUsed(t))

\* speakText(reply), then onresult's setIsProcessing(false).
Finish(t, reply) ==
  /\ SetRes(speakText(Res))
  /\ speakCalls' = speakCalls + 1
  /\ lastSpoken' = reply
  /\ isProcessing' = FALSE
  /\ turns' = turns \ {t}

\* The completion request of turn t settles.  The entry is appended, the
\* webhook is sent and awaited; without a usable webhook URL the function
\* runs on to speakText.
FetchSettle(t, outcome, answer) ==
  /\ t \in turns /\ t.pc = "fetch"
  /\ ~host.webhook => answer = "ok"
  /\ ~Parsed(outcome) => nFaults < limits.faults
  /\ nFaults' = IF Parsed(outcome) THEN nFaults ELSE nFaults + 1
  /\ LET reply == IF Parsed(outcome) THEN ContentOf(outcome) ELSE FallbackReply(t)
         event == IF Parsed(outcome) THEN "conversation_entry"
                  ELSE "conversation_entry_fallback"
     IN  /\ conversations' =
              IF Parsed(outcome)
              THEN AppendRemote(conversations, NewEntry(t.message, reply))
              ELSE AppendFallback(conversations, NewEntry(t.message, reply))
         /\ stored' = Persist(stored, conversations')
         /\ userProfile' =
              IF Parsed(outcome)
              THEN ProfileAfterRemote(userProfile, calls[t.inv].snap, t.message)
              ELSE ProfileAfterFallback(userProfile, calls[t.inv].snap, t.message)
         /\ clock' = clock + 1
         /\ streak' = IF Parsed(outcome) THEN streak + 1 ELSE 0
         /\ IF host.webhook
            THEN /\ Sent(event)
                 /\ turns' = (turns \ {t}) \cup
                      {[t EXCEPT !.pc = "hook", !.reply = reply, !.answer = answer]}
                 /\ UNCHANGED << refVars, calls, utter, error, isListening, isSpeaking,
                                 audioLevel, speakCalls, lastSpoken, isProcessing >>
            ELSE /\ Finish(t, reply)
                 /\ UNCHANGED hookLog
  /\ DidTurn(IF Parsed(outcome) THEN "remote" ELSE "fallback", t)
  /\ UNCHANGED << isCallActive, isMicPermissionGranted, currentTranscript,
                  sessionProgress, conversationContext, envVars, restartTimers,
                  nTurns >>

\* The turn's webhook settles, either way.
TurnHookSettle(t) ==
  /\ t \in turns /\ t.pc = "hook"
  /\ Answered(t.answer)
  /\ Finish(t, t.reply)
  /\ DidTurn("spoke", t)
  /\ UNCHANGED << isCallActive, isMicPermissionGranted, currentTranscript,
                  sessionProgress, dataVars, envVars, restartTimers, nTurns, nFaults,
                  hookLog >>

\* ------------------------------------------------- speech synthesis
UtterStart ==
  /\ utter = "queued"
  /\ utter' = "speaking"
  /\ isSpeaking' = TRUE
  /\ Did("utterStart", 0)
  /\ UNCHANGED << isCallActive, error, isMicPermissionGranted, isListening,
                  isProcessing, currentTranscript, audioLevel, sessionProgress,
                  dataVars, refVars, envVars, calls, turns, restartTimers, nTurns,
                  nFaults, speakCalls, lastSpoken, hookLog >>

UtterEnd ==
  /\ utter = "speaking"
  /\ utter' = "none"
  /\ isSpeaking' = FALSE
  /\ Did("utterEnd", 0)
  /\ UNCHANGED << isCallActive, error, isMicPermissionGranted, isListening,
                  isProcessing, currentTranscript, audioLevel, sessionProgress,
                  dataVars, refVars, envVars, calls, turns, restartTimers, nTurns,
                  nFaults, speakCalls, lastSpoken, hookLog >>

\* ------------------------------------------------------ other clicks
\* "Clear History", rendered while the history is not empty.
ClearHistory ==
  /\ mounted /\ Len(conversations) > 0
  /\ conversations' = <<>>
  /\ conversationContext' = <<>>
  /\ sessionProgress' = 0
  /\ stored' = Persist(NotStored, conversations')
  /\ userProfile' = ProfileAfterClear(userProfile)
  /\ streak' = 0
  /\ IF host.webhook THEN Sent("history_cleared") ELSE UNCHANGED hookLog
  /\ Did("clearHistory", 0)
  /\ UNCHANGED << isCallActive, error, isMicPermissionGranted, isListening,
                  isSpeaking, isProcessing, currentTranscript, audioLevel, clock,
                  refVars, envVars, calls, turns, utter, restartTimers, nTurns,
                  nFaults, speakCalls, lastSpoken >>

\* The "x" of the error banner.
DismissError ==
  /\ mounted /\ error # NULL
  /\ error' = NULL
  /\ Did("dismiss", 0)
  /\ UNCHANGED << isCallActive, isMicPermissionGranted, isListening, isSpeaking,
                  isProcessing, currentTranscript, audioLevel, sessionProgress,
                  dataVars, refVars, envVars, calls, turns, utter, restartTimers,
                  nTurns, nFaults, speakCalls, lastSpoken, hookLog >>

\* ------------------------------------------------------ specification
Invocations == 1..Len(calls)

Next ==
  \/ StartCall
  \/ \E i \in Invocations, granted \in BOOLEAN, answer \in limits.answers :
       ProbeSettle(i, granted, answer)
  \/ \E i \in Invocations : CallHookSettle(i)
  \/ \E i \in Invocations, granted, startOK \in BOOLEAN, level \in Levels :
       AcquireSettle(i, granted, startOK, level)
  \/ EndCall
  \/ Unmount
  \/ \E i \in Invocations : OnStart(i)
  \/ \E i \in Invocations, code \in limits.codes : OnError(i, code)
  \/ \E i \in Invocations : OnEnd(i)
  \/ \E i \in Invocations, batch \in limits.batches : OnResult(i, batch)
  \/ \E t \in turns, outcome \in limits.outcomes, answer \in limits.answers :
       FetchSettle(t, outcome, answer)
  \/ \E t \in turns : TurnHookSettle(t)
  \/ UtterStart
  \/ UtterEnd
  \/ ClearHistory
  \/ DismissError

Spec == Init /\ [][Next]_vars

SpecTurns == InitTurns /\ [][Next]_vars

SpecErrors == InitErrors /\ [][Next]_vars

\* The user starts a call and speaks; nothing else happens.
NextRetention ==
  \/ StartCall
  \/ \E i \in Invocations, answer \in limits.answers : ProbeSettle(i, TRUE, answer)
  \/ \E i \in Invocations : CallHookSettle(i)
  \/ \E i \in Invocations, level \in Levels : AcquireSettle(i, TRUE, TRUE, level)
  \/ \E i \in Invocations : OnStart(i)
  \/ \E i \in Invocations, batch \in limits.batches : OnResult(i, batch)
  \/ \E t \in turns, outcome \in limits.outcomes, answer \in limits.answers :
       FetchSettle(t, outcome, answer)
  \/ \E t \in turns : TurnHookSettle(t)

SpecRetention == InitRetention /\ [][NextRetention]_vars

SpecReplies == InitReplies /\ [][NextRetention]_vars

\* ================================================================ claims
LiveStreams == {i \in Invocations : calls[i].stream}

NewestFirst(h) == \A k \in 1..(Len(h) - 1) : h[k].ts > h[k + 1].ts

\* C1: in every reachable state the history holds at most 50 turns, newest
\* first, whatever paths produced them.
C1_HistoryCapped == Len(conversations) <= 50 /\ NewestFirst(conversations)

\* C2: a remote-success turn becomes the head of the history, followed by the
\* first 49 entries of the prior history in their order; and once 50 or more
\* remote-success turns were appended in a row the history is exactly the 50
\* most recent turns, newest first.
C2_RemoteStep ==
  (clock' = clock + 1 /\ last'.op = "remote") =>
     /\ Len(conversations') = 1 + (IF Len(conversations) > 49 THEN 49
                                   ELSE Len(conversations))
     /\ conversations'[1].ts = clock
     /\ conversations'[1].aiResponse \in {RemoteReply, ""}
     /\ \E t \in turns : t.id = last'.id /\ conversations'[1].userMessage = t.message
     /\ \A k \in 2..Len(conversations') : conversations'[k] = conversations[k - 1]

C2_Retained ==
  streak >= 50 =>
     /\ Len(conversations) = 50
     /\ \A k \in 1..50 : conversations[k].ts = clock - k

C2_RemoteRetention == [][C2_RemoteStep]_vars /\ []C2_Retained

C2_Witness == streak = 51 /\ last.op = "spoke" /\ Len(conversations) = 50

\* C3: when the remote completion fails, exactly one turn carrying the locally
\* generated fallback reply is put at the head of the history, speakText is
\* invoked with that reply (after the awaited webhook where there is one), and
\* isCallActive, the recognizer ref and the error state stay as they were.
C3_FallbackStep ==
  (clock' = clock + 1 /\ last'.op = "fallback") =>
     \E t \in turns :
       /\ t.id = last'.id
       /\ LET reply == getContextAwareResponse(
                         t.message, calls[t.inv].snap.conversationContext)
          IN  /\ conversations' =
                   << [ ts |-> clock, userMessage |-> t.message,
                        aiResponse |-> reply, mood |-> detectMood(t.message),
                        topics |-> extractTopics(t.message) ] >> \o conversations
              /\ IF host.webhook
                 THEN /\ \E u \in turns' : u.id = t.id /\ u.pc = "hook" /\ u.reply = reply
                      /\ speakCalls' = speakCalls
                 ELSE /\ speakCalls' = speakCalls + 1
                      /\ lastSpoken' = reply
                      /\ utter' = "queued"
       /\ isCallActive' = isCallActive
       /\ recognitionRef' = recognitionRef
       /\ calls' = calls
       /\ error' = error

C3_SpokeStep ==
  (speakCalls' = speakCalls + 1 /\ last'.op = "spoke") =>
     \E t \in turns :
       /\ t.id = last'.id /\ t.pc = "hook"
       /\ lastSpoken' = t.reply
       /\ utter' = "queued"
       /\ conversations' = conversations
       /\ isCallActive' = isCallActive
       /\ recognitionRef' = recognitionRef
       /\ calls' = calls
       /\ error' = error

C3_FallbackTurn == [][C3_FallbackStep /\ C3_SpokeStep]_vars

C3_Witness ==
  /\ last.op = "spoke" /\ lastSpoken \notin {RemoteReply, ""}
  /\ Len(conversations) = LoadedLen + 1
  /\ conversations[1].aiResponse = lastSpoken
  /\ isCallActive /\ error = NULL /\ recognitionRef # 0

\* C4: when a recognizer fires onend while the call is active and the ref
\* still holds it (stopSpeechRecognition was not called), its restart is
\* scheduled.
C4_OnEndStep ==
  (/\ last'.op = "onend" /\ last'.id \in Invocations
   /\ calls[last'.id].rec \in {"listening", "ending"}
   /\ calls'[last'.id].rec = "idle"
   /\ isCallActive /\ recognitionRef = last'.id)
  => last'.id \in restartTimers'

C4_RestartScheduled == [][C4_OnEndStep]_vars

\* C5: a recognizer is started by the bring-up of a startCall and by nothing
\* else; with the ref cleared, an onend schedules no restart and the body of a
\* restart timer does nothing, even for a closure that saw the call active;
\* stopSpeechRecognition and stopSpeechSynthesis raise nothing, and applied a
\* second time they change nothing.
C5_StartStep ==
  \A i \in Invocations :
    (calls[i].rec # "starting" /\ calls'[i].rec = "starting")
      => (last'.op = "broughtUp" /\ last'.id = i)

C5_OnEndStep ==
  (last'.op = "onend" /\ recognitionRef = 0) => restartTimers' = restartTimers

C5_TimerIdle ==
  recognitionRef = 0 =>
    \A i \in Invocations :
      LET r == [Res EXCEPT !.calls[i].snap.isCallActive = TRUE]
      IN  RestartTimer(r, i) = r

C5_StopTwice ==
  /\ ~stopSpeechRecognition(Res).threw
  /\ stopSpeechRecognition(stopSpeechRecognition(Res)) = stopSpeechRecognition(Res)
  /\ ~stopSpeechSynthesis(Res).threw
  /\ stopSpeechSynthesis(stopSpeechSynthesis(Res)) = stopSpeechSynthesis(Res)

C6_FailedStartRollsBack ==
  (\/ last.op = "acquireRejected"
   \/ last.op = "broughtUp" /\ (~host.recognition \/ calls[last.id].rec = "idle"))
  => /\ ~isCallActive
     /\ error # NULL
     /\ ~calls[last.id].stream
     /\ ~calls[last.id].graph
     /\ recognitionRef # last.id

\* C7: a refused probe leaves isCallActive and isMicPermissionGranted as they
\* were, retains no stream, creates no recognizer, sends no call_started
\* webhook and sets the error message; and isCallActive turns true only in the
\* step of a granted probe.
C7_RefusedStep ==
  (/\ last'.op = "probeRefused" /\ last'.id \in Invocations
   /\ calls[last'.id].pc = "probe" /\ calls'[last'.id].pc = "done")
  => /\ isCallActive' = isCallActive
     /\ isMicPermissionGranted' = isMicPermissionGranted
     /\ refVars' = refVars
     /\ LiveStreams' = LiveStreams
     /\ ~calls'[last'.id].stream
     /\ calls'[last'.id].rec = "none"
     /\ ~calls'[last'.id].hook
     /\ hookLog' = hookLog
     /\ error' = ErrMicRequired

C7_ActiveStep == (~isCallActive /\ isCallActive') => last'.op = "probeGranted"

C7_RefusedProbe == [][C7_RefusedStep /\ C7_ActiveStep]_vars

C7_Witness ==
  /\ last.op = "probeRefused" /\ ~isCallActive /\ ~isMicPermissionGranted
  /\ error = ErrMicRequired /\ mediaStreamRef = 0 /\ LiveStreams = {}

\* C8: at most one capture stream is live, and a live stream is the one
\* mediaStreamRef references.
C8_OneLiveStream ==
  Cardinality(LiveStreams) <= 1 /\ \A i \in LiveStreams : mediaStreamRef = i

\* C9: at most one processUserMessage call is in flight.
C9_OneInFlight == Cardinality(turns) <= 1

\* C10: endCall leaves the turns in flight in flight; a turn whose call was
\* ended during its completion request still puts its entry at the head of
\* the history when the request settles, and speakText is still invoked with
\* its reply.
C10_EndCallStep ==
  (last'.op = "endCall" /\ isCallActive /\ ~isCallActive') =>
     \A t \in turns : \E u \in turns' : u.id = t.id /\ u.pc = t.pc

C10_LateSettle ==
  \A t \in turns :
    (t.late /\ t.pc = "fetch" /\ t \notin turns') =>
       /\ Len(conversations') >= 1
       /\ conversations'[1].ts = clock
       /\ conversations'[1].userMessage = t.message
       /\ \/ \E u \in turns' : u.id = t.id /\ u.pc = "hook"
                                /\ u.reply = conversations'[1].aiResponse
          \/ speakCalls' = speakCalls + 1
               /\ lastSpoken' = conversations'[1].aiResponse

C10_LateSpeak ==
  \A t \in turns :
    (t.late /\ t.pc = "hook" /\ t \notin turns') =>
       speakCalls' = speakCalls + 1 /\ lastSpoken' = t.reply /\ utter' = "queued"

C10_NotCancelled == [][C10_EndCallStep /\ C10_LateSettle /\ C10_LateSpeak]_vars

C10_Witness ==
  /\ last.op = "spoke" /\ last.late /\ ~isCallActive
  /\ utter = "queued" /\ Len(conversations) > LoadedLen
  /\ conversations[1].aiResponse = lastSpoken

\* C11: sessionProgress is an integer of 0..100; a processed turn raises it
\* by 10, a value above 90 becoming 100, at the moment the transcript is
\* accepted and on neither path again afterwards; startCall sets it to 0.
C11_Range == sessionProgress \in 0..100

C11_TurnStep ==
  (last'.op = "asked" /\ nTurns' = nTurns + 1) =>
     sessionProgress' = IF sessionProgress > 90 THEN 100 ELSE sessionProgress + 10

C11_StartStep ==
  (last'.op = "startCall" /\ Len(calls') = Len(calls) + 1) => sessionProgress' = 0

C11_OtherStep ==
  sessionProgress' # sessionProgress =>
     last'.op \in {"asked", "startCall", "endCall", "clearHistory"}

C11_SessionProgress ==
  [][C11_TurnStep /\ C11_StartStep /\ C11_OtherStep]_vars /\ []C11_Range

C11_Witness ==
  /\ last.op = "asked" /\ sessionProgress = 100
  /\ \E t \in turns : t.id = last.id /\ t.pc = "fetch"

\* C12: the step of endCall ends with isCallActive, isListening and isSpeaking
\* false, audioLevel 0, the live transcript empty, no error, sessionProgress
\* 100, the four refs null and nothing queued for speech; the recognizer that
\* was referenced is stopped, the referenced stream and audio graph released;
\* the helpers run in the order recognition, synthesis, capture.
C12_EndCallStep ==
  (last'.op = "endCall" /\ isCallActive) =>
     /\ ~isCallActive' /\ ~isListening' /\ ~isSpeaking'
     /\ audioLevel' = 0 /\ currentTranscript' = "" /\ error' = NULL
     /\ sessionProgress' = 100
     /\ recognitionRef' = 0 /\ mediaStreamRef' = 0
     /\ audioContextRef' = 0 /\ analyserRef' = 0
     /\ utter' = "none"
     /\ recognitionRef # 0 => calls'[recognitionRef].rec \notin {"starting", "listening"}
     /\ mediaStreamRef # 0 => ~calls'[mediaStreamRef].stream
     /\ audioContextRef # 0 => ~calls'[audioContextRef].graph

C12_Order == TeardownOrder = << "recognition", "synthesis", "capture" >>

C13_ShortStep ==
  (nTurns' = nTurns + 1 /\ Len(Trim(FinalTranscript(last'.batch))) < 2) =>
     /\ conversations' = conversations
     /\ stored' = stored
     /\ conversationContext' = conversationContext
     /\ sessionProgress' = sessionProgress
     /\ userProfile' = userProfile
     /\ turns' = turns
     /\ hookLog' = hookLog
     /\ speakCalls' = speakCalls /\ lastSpoken' = lastSpoken /\ utter' = utter

C13_ShortIsNoOp == [][C13_ShortStep]_vars

C13_Witness ==
  /\ last.op = "rejected" /\ last.batch = Final(" a")
  /\ nTurns = 1 /\ turns = {} /\ speakCalls = 0 /\ sessionProgress = 0

\* C14: no turn of the history has an empty aiResponse: a response whose
\* message has no content goes to the fallback path.
C14_ReplyNonEmpty ==
  /\ \A k \in 1..Len(conversations) : conversations[k].aiResponse # ""
  /\ last.op = "remote" => conversations[1].aiResponse = RemoteReply

\* C15 as claimed: a batch with at least one final result makes onresult call
\* processUserMessage, a batch without one does not.
C15_HasFinal(batch) == \E k \in 1..Len(batch) : batch[k].isFinal

C15_CallPerFinalBatch ==
  last.batch # <<>> =>
     (C15_HasFinal(last.batch) <=> last.op \in {"asked", "rejected"})

\* C15 amended: when the final transcripts of the batch concatenate to a
\* non-empty text, processUserMessage is called exactly once, with that text
\* trimmed; when they concatenate to the empty text (no final result, or final
\* results without text) it is not called, and only the live transcript view
\* changes.
C15_Finals(batch) ==
  LET finals == SelectSeq(batch, LAMBDA r : r.isFinal)
  IN  IF Len(finals) = 0 THEN ""
      ELSE IF Len(finals) = 1 THEN finals[1].transcript
      ELSE finals[1].transcript \o finals[2].transcript

C15_ResultStep ==
  (last'.batch # <<>> /\ last' # last) =>
     LET text == C15_Finals(last'.batch) IN
     IF text # ""
     THEN /\ nTurns' = nTurns + 1
          /\ IF Len(Trim(text)) < 2
             THEN turns' = turns
             ELSE \E t \in turns' \ turns :
                    /\ turns' = turns \cup {t}
                    /\ t.message = Trim(text) /\ t.id = nTurns' /\ t.pc = "fetch"
     ELSE /\ nTurns' = nTurns /\ turns' = turns
          /\ isProcessing' = isProcessing
          /\ sessionProgress' = sessionProgress
          /\ conversationContext' = conversationContext
          /\ conversations' = conversations
          /\ userProfile' = userProfile
          /\ hookLog' = hookLog /\ speakCalls' = speakCalls

C15_CallPerFinalText == [][C15_ResultStep]_vars

C15_Witness ==
  /\ last.op = "asked"
  /\ last.batch = Final("I feel ") \o Final("great today")
  /\ \E t \in turns : t.id = last.id /\ t.message = "I feel great today"

\* C16: after a processed turn recentTopics is the last 10 elements of the
\* first occurrences of (previous recentTopics, then the topics of the
\* message); it has no duplicates and at most 10 entries, and a topic that was
\* there before stands where it stood.
C16_FirstOccurrences(q) ==
  LET idx == {k \in 1..Len(q) : \A j \in 1..(k - 1) : q[j] # q[k]}
      nth(n) == CHOOSE k \in idx : Cardinality({j \in idx : j <= k}) = n
  IN  [n \in 1..Cardinality(idx) |-> q[nth(n)]]

C16_LastTen(q) ==
  IF Len(q) <= 10 THEN q ELSE [n \in 1..10 |-> q[Len(q) - 10 + n]]

C16_TopicsStep ==
  (last'.op = "asked" /\ nTurns' = nTurns + 1) =>
     \E t \in turns' \ turns :
       LET merged == C16_FirstOccurrences(conversationContext \o extractTopics(t.message))
           before == C16_FirstOccurrences(conversationContext)
       IN  /\ conversationContext' = C16_LastTen(merged)
           /\ Len(conversationContext') <= 10
           /\ \A j, k \in 1..Len(conversationContext') :
                conversationContext'[j] = conversationContext'[k] => j = k
           /\ Len(merged) <= 10 =>
                /\ Len(before) <= Len(conversationContext')
                /\ \A k \in 1..Len(before) : conversationContext'[k] = before[k]

C16_TopicMerge == [][C16_TopicsStep]_vars

C16_Witness ==
  /\ last.op = "asked"
  /\ \E t \in turns : t.id = last.id /\ t.message = "Hello, work was good today"
  /\ conversationContext = <<"family", "work", "stress", "sleep", "positive">>

\* C17: after a processed turn, on either path, the emotionalState of the
\* profile is the mood of the newest history entry, detectMood of the turn's
\* message.
C17_EmotionalStateIsMood ==
  (last.op \in {"remote", "fallback"} /\ userProfile.present) =>
     /\ conversations[1].mood = detectMood(conversations[1].userMessage)
     /\ userProfile.emotionalState = conversations[1].mood

\* C18: startCall and endCall leave recentTopics, the history and what is
\* persisted of it as they were; clearHistory empties the history and
\* recentTopics, sets sessionProgress to 0 and leaves no persisted history.
C18_CallStep ==
  (\/ last'.op = "startCall" /\ Len(calls') = Len(calls) + 1
   \/ last'.op = "endCall" /\ isCallActive)
  => /\ conversationContext' = conversationContext
     /\ conversations' = conversations
     /\ stored' = stored
     /\ sessionProgress' = IF last'.op = "startCall" THEN 0 ELSE 100

C18_ClearStep ==
  (last'.op = "clearHistory" /\ Len(conversations) > 0) =>
     /\ conversations' = <<>>
     /\ conversationContext' = <<>>
     /\ sessionProgress' = 0
     /\ ~stored'.present

C18_TopicsAndHistory == [][C18_CallStep /\ C18_ClearStep]_vars

C18_Witness ==
  /\ last.op = "clearHistory" /\ Len(calls) = 2
  /\ conversations = <<>> /\ conversationContext = <<>>
  /\ sessionProgress = 0 /\ ~stored.present

\* C19: the final transcript "I feel great today" with the completion service
\* unreachable gives, on the fallback path, a turn with mood positive and
\* topics exactly <<positive>> at the head of the history, the fallback reply
\* as its aiResponse.
C19_GreatToday ==
  (last.op = "fallback" /\ conversations[1].userMessage = "I feel great today") =>
     /\ conversations[1].mood = "positive"
     /\ conversations[1].topics = <<"positive">>
     /\ conversations[1].aiResponse \notin {RemoteReply, ""}

\* C20: the fallback reply follows the first rule that matches, in the order
\* (a) context and "remember"/"before": the last 3 context topics by name,
\* (b) stress in the context and "better"/"improve", (c) work in the context
\* and "today", (d) greeting, "how are you", thanks, sad, happy, (e) the
\* generic reply, naming the last 2 context topics when there is a context;
\* the same message in the same context gets the same reply.
C20_LastJoined(ctx, n, sep) ==
  LET len == Len(ctx)
      from == IF len > n THEN len - n + 1 ELSE 1
  IN  IF len = 0 THEN ""
      ELSE IF from = len THEN ctx[len]
      ELSE IF from + 1 = len THEN ctx[len - 1] \o sep \o ctx[len]
      ELSE ctx[len - 2] \o sep \o ctx[len - 1] \o sep \o ctx[len]

C20_Rules(message, ctx, reply) ==
  LET m == ToLowerCase(message)
      has(w) == Includes(m, w)
      known == Len(ctx) > 0
      about(x) == \E k \in 1..Len(ctx) : ctx[k] = x
      ruleA == known /\ (has("remember") \/ has("before"))
      ruleB == known /\ about("stress") /\ (has("better") \/ has("improve"))
      ruleC == known /\ about("work") /\ has("today")
      greet == has("hello") \/ has("hi") \/ has("hey")
      howAreYou == has("how are you")
      thanks == has("thank")
      sad == has("sad") \/ has("upset") \/ has("unhappy")
      happy == has("happy") \/ has("excited") \/ has("good")
      context == ruleA \/ ruleB \/ ruleC
  IN  /\ ruleA =>
           reply = "I remember we talked about " \o C20_LastJoined(ctx, 3, ", ")
                   \o ". I'm here to continue supporting you with those topics. How are things going with that now?"
      /\ (~ruleA /\ ruleB) =>
           reply = "I'm glad to hear you're working on managing stress. Remember the techniques we discussed? How are they helping you?"
      /\ (~ruleA /\ ~ruleB /\ ruleC) =>
           reply = "Since we've talked about work before, I'd love to hear how your day went. Any specific challenges or successes?"
      /\ (~context /\ greet) =>
           reply = IF known
                   THEN "Welcome back! I remember our previous conversation. How have you been since we last spoke?"
                   ELSE "Hello! It's great to meet you. I'm here to listen and support you. What would you like to talk about today?"
      /\ (~context /\ ~greet /\ howAreYou) =>
           reply = "I'm functioning well, thank you for asking! I'm here to chat with you. What's on your mind today?"
      /\ (~context /\ ~greet /\ ~howAreYou /\ thanks) =>
           reply = "You're very welcome! I'm glad I could help. Remember, I'm always here to listen. Is there anything else you'd like to discuss?"
      /\ (~context /\ ~greet /\ ~howAreYou /\ ~thanks /\ sad) =>
           reply = "I'm sorry to hear you're feeling this way. It takes courage to share these feelings. Would you like to talk more about what's bothering you?"
      /\ (~context /\ ~greet /\ ~howAreYou /\ ~thanks /\ ~sad /\ happy) =>
           reply = "That's wonderful to hear! I'm glad you're feeling positive. What's been making you feel this way? I'd love to hear more!"
      /\ (~context /\ ~greet /\ ~howAreYou /\ ~thanks /\ ~sad /\ ~happy) =>
           reply = IF known
                   THEN "Thank you for sharing that. Building on our previous conversation about "
                        \o C20_LastJoined(ctx, 2, " and ")
                        \o ", I'm here to support you further. What else would you like to discuss?"
                   ELSE "Thank you for sharing that with me. I'm here to listen and help however I can. What else is on your mind?"

C20_FallbackPriority ==
  /\ last.op = "fallback" =>
       \E t \in turns :
         /\ t.id = last.id
         /\ conversations[1].userMessage = t.message
         /\ C20_Rules(t.message, calls[t.inv].snap.conversationContext,
                      conversations[1].aiResponse)
  /\ \A j, k \in 1..Len(conversations) :
       (/\ conversations[j].userMessage = conversations[k].userMessage
        /\ conversations[j].aiResponse \notin {RemoteReply, ""}
        /\ conversations[k].aiResponse \notin {RemoteReply, ""})
       => conversations[j].aiResponse = conversations[k].aiResponse

C20_Witness ==
  /\ last.op = "fallback"
  /\ conversations[1].userMessage = "I remember feeling better, thank you"
  /\ conversations[1].aiResponse =
       "I remember we talked about work, stress, sleep. I'm here to continue supporting you with those topics. How are things going with that now?"

\* C21: the mood of a turn is positive exactly when more words of the positive
\* list than of the negative list occur in its message, letter case ignored,
\* negative exactly when fewer do, and neutral on every tie, 0 to 0 included;
\* the same message has the same mood on either path and in any context.
C21_Positive ==
  { "happy", "good", "great", "excited", "wonderful", "amazing", "love",
    "excellent", "fantastic", "perfect", "joy", "pleased", "better", "improved" }

C21_Negative ==
  { "sad", "bad", "angry", "upset", "frustrated", "hate", "terrible", "awful",
    "horrible", "annoying", "disappointed", "stress", "anxious", "worried" }

C21_Occurring(words, lower) == Cardinality({w \in words : Includes(lower, w)})

C21_MoodOf(entry) ==
  LET lower == ToLowerCase(entry.userMessage)
      p == C21_Occurring(C21_Positive, lower)
      n == C21_Occurring(C21_Negative, lower)
  IN  /\ entry.mood \in {"positive", "negative", "neutral"}
      /\ entry.mood = "positive" <=> p > n
      /\ entry.mood = "negative" <=> p < n
      /\ entry.mood = "neutral" <=> p = n

C21_MoodByCount ==
  /\ \A k \in 1..Len(conversations) : C21_MoodOf(conversations[k])
  /\ \A j, k \in 1..Len(conversations) :
       conversations[j].userMessage = conversations[k].userMessage
         => conversations[j].mood = conversations[k].mood

C21_Witness ==
  /\ Len(conversations) = 2
  /\ conversations[1].userMessage = "Good days and BAD days"
  /\ conversations[1].mood = "neutral"
  /\ conversations[2].userMessage = "happy but angry and worried"
  /\ conversations[2].mood = "negative"

\* C22: the topics of a turn are the first 3, or fewer, tags, in the order
\* work, family, social, health, stress, sleep, positive, negative, of exactly
\* the groups one of whose keywords occurs in the message, letter case
\* ignored; no tag twice, never more than 3.
C22_Order ==
  << "work", "family", "social", "health", "stress", "sleep", "positive",
     "negative" >>

C22_Keywords(tag) ==
  CASE tag = "work" -> {"work", "job", "career"}
    [] tag = "family" -> {"family", "parent", "child"}
    [] tag = "social" -> {"friend", "social", "lonely"}
    [] tag = "health" -> {"health", "sick", "pain"}
    [] tag = "stress" -> {"stress", "anxiety", "worry"}
    [] tag = "sleep" -> {"sleep", "tired", "energy"}
    [] tag = "positive" -> {"happy", "excited", "good"}
    [] tag = "negative" -> {"sad", "upset", "bad"}

C22_TopicsOf(entry) ==
  LET lower == ToLowerCase(entry.userMessage)
      found == {g \in 1..8 : \E w \in C22_Keywords(C22_Order[g]) : Includes(lower, w)}
      rank(g) == Cardinality({h \in found : h <= g})
      topics == entry.topics
  IN  /\ Len(topics) = IF Cardinality(found) > 3 THEN 3 ELSE Cardinality(found)
      /\ \A g \in found : rank(g) <= 3 => topics[rank(g)] = C22_Order[g]
      /\ \A j, k \in 1..Len(topics) : topics[j] = topics[k] => j = k

C22_TopicsByGroup == \A k \in 1..Len(conversations) : C22_TopicsOf(conversations[k])

C22_Witness ==
  /\ Len(conversations) = 2
  /\ conversations[1].userMessage =
       "My job, my family and my friend make me sick with worry"
  /\ conversations[1].topics = <<"work", "family", "social">>
  /\ conversations[2].userMessage = "I am TIRED of my Job"
  /\ conversations[2].topics = <<"work", "sleep">>

\* C23: a recognition error of any code sets an error message and
\* isListening false and leaves isCallActive as it was; and
\* isMicPermissionGranted goes from true to false in the step of a
\* "not-allowed" recognition error and in no other step.
C23_Denied == "Microphone permission denied. Please allow microphone access."

C23_Messages ==
  { "No speech detected. Please speak louder or check your microphone.",
    "No microphone found. Please ensure a microphone is connected.",
    C23_Denied,
    "Network error occurred. Please check your connection.",
    "Speech recognition error: aborted" }

C23_ErrorStep ==
  (last'.op = "onerror" /\ nFaults' = nFaults + 1) =>
     /\ error' \in C23_Messages
     /\ ~isListening'
     /\ isCallActive' = isCallActive
     /\ isMicPermissionGranted' =
          IF error' = C23_Denied THEN FALSE ELSE isMicPermissionGranted

C23_RevokeStep ==
  (isMicPermissionGranted /\ ~isMicPermissionGranted') =>
     last'.op = "onerror" /\ error' = C23_Denied

C23_RecognitionError == [][C23_ErrorStep /\ C23_RevokeStep]_vars

C23_Witness ==
  /\ last.op = "onerror" /\ nFaults = 2
  /\ error = C23_Denied /\ ~isMicPermissionGranted
  /\ isCallActive /\ ~isListening

\* C24: a webhook request that fails or never answers sets no error and
\* holds nothing up: a turn that waits for its webhook can go on to speak its
\* reply, a startCall that waits for its webhook can go on to the capture
\* stream and the recognizer.
C24_WebhookNeverBlocks ==
  /\ \A t \in turns : t.pc = "hook" => ENABLED TurnHookSettle(t)
  /\ \A i \in Invocations : calls[i].pc = "webhook" => ENABLED CallHookSettle(i)

\* C25: turns enter the history in the order their transcripts arrived: when
\* a turn has just been appended, no turn of an earlier transcript is still
\* waiting for its completion request.
C25_ArrivalOrder ==
  last.op \in {"remote", "fallback"} =>
     \A t \in turns : t.pc = "fetch" => t.id > last.id

\* C26: the context a turn uses, in its system prompt and in its fallback
\* reply, is recentTopics as the turn before it left it.
C26_ContextStep ==
  (last'.op = "asked" /\ nTurns' = nTurns + 1) =>
     \A t \in turns' \ turns : ContextUsed(t) = conversationContext

C26_ContextFlowsForward == [][C26_ContextStep]_vars

\* C27: after a remote-success turn with a profile, the context written to
\* the profile is the context in memory: the same recentTopics, without
\* duplicates and at most 10 long, and the same sessionProgress, within 0..100.
C27_ProfileMatchesMemory ==
  (last.op = "remote" /\ userProfile.present) =>
     /\ userProfile.recentTopics = conversationContext
     /\ Len(userProfile.recentTopics) <= 10
     /\ \A j, k \in 1..Len(userProfile.recentTopics) :
          userProfile.recentTopics[j] = userProfile.recentTopics[k] => j = k
     /\ userProfile.sessionProgress = sessionProgress
     /\ userProfile.sessionProgress \in 0..100

\* C28: while the call is active and the audio graph is up the meter is
\* sampling: a next frame of analyzeAudio is asked for; audioLevel stays
\* within 0..1, and it is 0 when there is no graph.
C28_MeterSamples ==
  /\ audioLevel \in {0, 1}
  /\ analyserRef = 0 => audioLevel = 0
  /\ (isCallActive /\ audioContextRef # 0 /\ analyserRef # 0)
       => calls[analyserRef].frames

\* C29: when the call is idle and no startCall is still running, no capture
\* stream is retained or live, no audio graph is open and no recognizer is
\* attached.
C29_IdleHoldsNothing ==
  (~isCallActive /\ \A i \in Invocations : calls[i].pc = "done") =>
     /\ mediaStreamRef = 0 /\ audioContextRef = 0 /\ analyserRef = 0
     /\ recognitionRef = 0
     /\ \A i \in Invocations : ~calls[i].stream /\ ~calls[i].graph

\* C30: isProcessing is true exactly while at least one turn is in flight.
C30_ProcessingWhileInFlight == isProcessing <=> turns # {}

====
